---------------------------- MODULE Spec2Model ----------------------------
(***************************************************************************)
(* Model of src/data/dataset.py: the plan/product dataset adapters.        *)
(*                                                                         *)
(* A DataFrame is a record [rows, weight]: rows is the sequence of its     *)
(* rows (position 1..Len), weight is the content of its 'weight' column,   *)
(* <<>> when the frame has no such column.  A row is a record              *)
(* [id, plan_id, prod_id, score]; score is the value of the target column. *)
(* The metadata table carries its default unique index, and a product id   *)
(* occurs in one row only (spec.md, section 3).                            *)
(*                                                                         *)
(* Scores and weights are integers in units of one jitter step: the        *)
(* jitter np.random.uniform() * 1e-8 of the weighted strategy takes the    *)
(* values 0 .. JitterLevels - 1, so that JitterLevels units stand for      *)
(* 1e-8 and two scores closer than that can be reordered by the jitter.    *)
(***************************************************************************)
EXTENDS Integers, Sequences, FiniteSets, TLC

\* Bounds of the model.
MaxGroup == 5
MaxScore == 1
JitterLevels == 2
MaxRows == 2

\* plan.sample(n=7, ...) and plan.sample(n=5, ...) of the weighted strategy.
PosDrawsSingle == 7
PosDrawsMulti == 5

VARIABLES
    args,                    \* the constructor's arguments
    pc,                      \* "new", "failed", "ready", "returned"
    error,                   \* the exception construction ended with
    meta,                    \* self.meta
    meta_access_by_plan_id,  \* self.meta_access_by_plan_id
    unique_plan_ids,         \* self.unique_plan_ids
    warning,                 \* <<>> or <<num_rows_origin, num_rows_dropped>>
    prod,                    \* the last sample_prods call
    img_error                \* the last __getitem__ failed to load an image

vars == <<args, pc, error, meta, meta_access_by_plan_id, unique_plan_ids,
          warning, prod, img_error>>

----------------------------------------------------------------------------
(* Helpers on sets and sequences. *)

Range(s) == {s[i] : i \in DOMAIN s}

Min2(a, b) == IF a <= b THEN a ELSE b

MaxOf(S, key) == CHOOSE m \in {key[x] : x \in S} : \A y \in S : key[y] <= m

KSubsets(S, k) == {T \in SUBSET S : Cardinality(T) = k}

\* DataFrame.sort_values(by=key, ascending=False) over the rows at the
\* positions S: every order that is non-increasing in key (the order of equal
\* keys is whatever the sort makes of it).
RECURSIVE SortValues(_, _)
SortValues(S, key) ==
    IF S = {} THEN {<<>>}
    ELSE UNION {{<<m>> \o t : t \in SortValues(S \ {m}, key)} :
                m \in {x \in S : \A y \in S : key[y] <= key[x]}}

Scores(rows) == [i \in DOMAIN rows |-> rows[i].score]

RowsAt(rows, idx) == [k \in DOMAIN idx |-> rows[idx[k]]]

\* DataFrame.sample(n=k) without weights, replace=False: the sets of k rows it
\* can draw.  The set is empty exactly when the call raises ValueError (the
\* frame has fewer than k rows).
SampleUniform(S, k) == KSubsets(S, k)

\* DataFrame.sample(n=k, weights=w), replace=False: numpy draws k distinct rows
\* of non-zero weight.  The set is empty exactly when the call raises
\* ValueError: fewer than k rows have a non-zero weight (which covers weights
\* summing to zero and k above the frame's length).
SampleWeighted(S, w, k) == KSubsets({x \in S : w[x] > 0}, k)

Jitters(L) == [1..L -> 0..(JitterLevels - 1)]

AddWeight(rows, j) == [i \in DOMAIN rows |-> rows[i].score + j[i]]

\* The record of one sample_prods call: its n, how it ended, the positions
\* (in plan) of the rows returned, the rows, the position of the positive of
\* the weighted strategy, and the 'weight' column of the frame plan as the
\* call leaves it (<<>>: plan has no such column).
Outcome(n, status, rows, idx, pos, wcol) ==
    [n |-> n, status |-> status, idx |-> idx, rows |-> RowsAt(rows, idx),
     pos |-> pos, plan_weight |-> wcol]

NoCall ==
    [n |-> 0, status |-> "none", idx |-> <<>>, rows |-> <<>>, pos |-> 0,
     plan_weight |-> <<>>]

----------------------------------------------------------------------------
(* _PlanBaseDataset.sample_prods.  Each operator states that out is the    *)
(* record of a call that the random draws of the code can produce.         *)

\* plan.sort_values(by=self.target, ascending=False, ignore_index=True)
SortedGroup(plan, n, out) ==
    \E s \in SortValues(DOMAIN plan.rows, Scores(plan.rows)) :
        out = Outcome(n, "ok", plan.rows, s, 0, plan.weight)

\* n == 1, "random": plan.sample(1).squeeze()
RandomOne(plan, n, out) ==
    \E x \in DOMAIN plan.rows :
        out = Outcome(n, "ok", plan.rows, <<x>>, 0, plan.weight)

\* prod[prod["weight"] == prod["weight"].max()]
MaxTied(T, w) == {x \in T : w[x] = MaxOf(T, w)}

\* n == 1, "weighted": the weight column is written to plan itself, then 7
\* rows are drawn, the rows of maximal weight kept and one of them taken.
WeightedOne(plan, n, out) ==
    \E j \in Jitters(Len(plan.rows)) :
        LET w == AddWeight(plan.rows, j)
            draws == SampleWeighted(DOMAIN plan.rows, w, PosDrawsSingle)
        IN  IF draws = {}
            THEN out = Outcome(n, "ValueError", plan.rows, <<>>, 0, w)
            ELSE \E x \in UNION {MaxTied(T, w) : T \in draws} :
                    out = Outcome(n, "ok", plan.rows, <<x>>, 0, w)

\* SequentialOne without the filter on the maximum.
MutSequentialOne(plan, n, out) ==
    \E x \in DOMAIN plan.rows :
        out = Outcome(n, "ok", plan.rows, <<x>>, 0, plan.weight)

\* n == 1, "sequential": plan[plan[target] == plan[target].max()].sample(1)
SequentialOne(plan, n, out) ==
    \E x \in MaxTied(DOMAIN plan.rows, Scores(plan.rows)) :
        out = Outcome(n, "ok", plan.rows, <<x>>, 0, plan.weight)

\* n > 1, "random": plan.sample(n=n, replace=False), sorted by the target.
RandomMulti(plan, n, out) ==
    LET draws == SampleUniform(DOMAIN plan.rows, n)
    IN  IF draws = {}
        THEN out = Outcome(n, "ValueError", plan.rows, <<>>, 0, plan.weight)
        ELSE \E T \in draws :
             \E s \in SortValues(T, Scores(plan.rows)) :
                out = Outcome(n, "ok", plan.rows, s, 0, plan.weight)

\* NegWeights kept positive by an added step.
MutNegWeights(rem, w) == [x \in rem |-> MaxOf(rem, w) - w[x] + 1]

\* weights=plan_except_pos["weight"].max() - plan_except_pos["weight"]
NegWeights(rem, w) == [x \in rem |-> MaxOf(rem, w) - w[x]]

\* n > 1, "weighted": the weight column is written to plan itself; a positive
\* is taken out of 5 drawn rows, n - 1 negatives out of the other rows, and
\* the rows are sorted by weight.
WeightedMulti(plan, n, out) ==
    \E j \in Jitters(Len(plan.rows)) :
        LET w == AddWeight(plan.rows, j)
            draws == SampleWeighted(DOMAIN plan.rows, w, PosDrawsMulti)
        IN  IF draws = {}
            THEN out = Outcome(n, "ValueError", plan.rows, <<>>, 0, w)
            ELSE \E pos \in UNION {MaxTied(T, w) : T \in draws} :
                LET rem  == DOMAIN plan.rows \ {pos}
                    negs == SampleWeighted(rem, NegWeights(rem, w), n - 1)
                IN  IF negs = {}
                    THEN out = Outcome(n, "ValueError", plan.rows, <<>>, pos, w)
                    ELSE \E N \in negs :
                         \E s \in SortValues({pos} \cup N, w) :
                            out = Outcome(n, "ok", plan.rows, s, pos, w)

\* n > 1, "sequential": plan.sort_values(...).head(n)
SequentialMulti(plan, n, out) ==
    \E s \in SortValues(DOMAIN plan.rows, Scores(plan.rows)) :
        out = Outcome(n, "ok", plan.rows, SubSeq(s, 1, Min2(n, Len(s))), 0,
                      plan.weight)

sample_prods(plan, n, sampling_method, out) ==
    IF n = -1 THEN SortedGroup(plan, n, out)
    ELSE IF n = 1 THEN
        CASE sampling_method = "random" -> RandomOne(plan, n, out)
          [] sampling_method = "weighted" -> WeightedOne(plan, n, out)
          [] sampling_method = "sequential" -> SequentialOne(plan, n, out)
    ELSE IF n > 1 THEN
        IF Len(plan.rows) = n THEN SortedGroup(plan, n, out)
        ELSE CASE sampling_method = "random" -> RandomMulti(plan, n, out)
               [] sampling_method = "weighted" -> WeightedMulti(plan, n, out)
               [] sampling_method = "sequential" -> SequentialMulti(plan, n, out)
    ELSE out = Outcome(n, "None", plan.rows, <<>>, 0, plan.weight)

----------------------------------------------------------------------------
(* Construction: _PlanBaseDataset.__init__ and verify_meta_data. *)

DEFAULT_PLAN_ATTRS ==
    {"plan_name", "plan_startdate", "plan_cat1", "plan_cat2", "plan_kwds"}

DEFAULT_PROD_ATTRS ==
    {"prod_name", "prod_text", "prod_opendate", "prod_cat1", "prod_cat2",
     "prod_cat3", "prod_cat4", "prod_page_title"}

\* The classes whose __len__ is len(self.meta) and which sample one product
\* from the stored group itself, and those whose __len__ is
\* len(self.unique_plan_ids) and which sample discrim_size products from a
\* reset_index copy of the group.
MatchingVariants == {"SemanticMatchingDataset", "SemanticMatchingEvalDataset"}

DiscrimVariants ==
    {"PreferenceDiscrimDataset", "PDAblation2Dataset",
     "PreferenceDiscrimEvalDataset"}

Variants == MatchingVariants \cup DiscrimVariants

SamplingMethods == {"weighted", "random", "sequential"}

\* An optional attribute list is <<>> (None) or <<the set of its names>>.
AttrsOrDefault(attrs, default) == IF attrs = <<>> THEN default ELSE attrs[1]

\* AssertsPass without the assert on the target column.
MutAssertsPass(a) ==
    /\ a.sampling_method \in SamplingMethods
    /\ AttrsOrDefault(a.plan_attrs, DEFAULT_PLAN_ATTRS) \subseteq a.columns
    /\ AttrsOrDefault(a.prod_attrs, DEFAULT_PROD_ATTRS) \subseteq a.columns

\* The four assert statements of __init__.
AssertsPass(a) ==
    /\ a.target \in a.columns
    /\ a.sampling_method \in SamplingMethods
    /\ AttrsOrDefault(a.plan_attrs, DEFAULT_PLAN_ATTRS) \subseteq a.columns
    /\ AttrsOrDefault(a.prod_attrs, DEFAULT_PROD_ATTRS) \subseteq a.columns

RECURSIVE SelectPlan(_, _)
SelectPlan(rows, p) ==
    IF rows = <<>> THEN <<>>
    ELSE (IF Head(rows).plan_id = p THEN <<Head(rows)>> ELSE <<>>)
         \o SelectPlan(Tail(rows), p)

\* dict(tuple(meta.groupby("plan_id")))
GroupBy(rows) ==
    [p \in {r.plan_id : r \in Range(rows)} |->
        [rows |-> SelectPlan(rows, p), weight |-> <<>>]]

\* meta["plan_id"].unique().tolist(): in order of first appearance.
RECURSIVE UniquePlanIds(_, _)
UniquePlanIds(rows, seen) ==
    IF rows = <<>> THEN <<>>
    ELSE IF Head(rows).plan_id \in seen THEN UniquePlanIds(Tail(rows), seen)
    ELSE <<Head(rows).plan_id>>
         \o UniquePlanIds(Tail(rows), seen \cup {Head(rows).plan_id})

\* __len__ of the variant.
DatasetLen(variant, m, plan_ids) ==
    IF variant \in MatchingVariants THEN Len(m) ELSE Len(plan_ids)

\* os.path.isfile(os.path.join(self.img_dir, f"{x}.jpg"))
HasImage(files, row) == row.prod_id \in files

\* DropMissing with the result of drop() not assigned back.
MutDropMissing(rows, files) == rows

RECURSIVE DropMissing(_, _)
DropMissing(rows, files) ==
    IF rows = <<>> THEN <<>>
    ELSE (IF HasImage(files, Head(rows)) THEN <<Head(rows)>> ELSE <<>>)
         \o DropMissing(Tail(rows), files)

\* verify_meta_data: self.meta and the warning it leaves.  Only self.meta is
\* reassigned; the groups and the plan ids were computed before the call.
verify_meta_data(variant, m, plan_ids, files) ==
    IF \E i \in DOMAIN m : ~HasImage(files, m[i])
    THEN LET kept == DropMissing(m, files)
         IN  [meta |-> kept,
              warning |-> <<DatasetLen(variant, m, plan_ids),
                            DatasetLen(variant, kept, plan_ids)>>]
    ELSE [meta |-> m, warning |-> <<>>]

\* The object __init__ leaves when its asserts pass.
Constructed(a) ==
    LET plan_ids == UniquePlanIds(a.meta, {})
        verified == verify_meta_data(a.variant, a.meta, plan_ids, a.files)
    IN  [meta |-> verified.meta,
         meta_access_by_plan_id |-> GroupBy(a.meta),
         unique_plan_ids |-> plan_ids,
         warning |-> verified.warning]

Construct ==
    /\ pc = "new"
    /\ IF AssertsPass(args)
       THEN /\ pc' = "ready"
            /\ error' = "none"
            /\ meta' = Constructed(args).meta
            /\ meta_access_by_plan_id' = Constructed(args).meta_access_by_plan_id
            /\ unique_plan_ids' = Constructed(args).unique_plan_ids
            /\ warning' = Constructed(args).warning
       ELSE /\ pc' = "failed"
            /\ error' = "AssertionError"
            /\ UNCHANGED <<meta, meta_access_by_plan_id, unique_plan_ids,
                           warning>>
    /\ UNCHANGED <<args, prod, img_error>>

----------------------------------------------------------------------------
(* __getitem__ of the variants. *)

\* load_prod_img on every returned row raises when a file is missing:
\* cv2.imread gives None for it and cv2.cvtColor raises on None.
LoadFails(files, out) ==
    out.status = "ok" /\ \E i \in DOMAIN out.rows : ~HasImage(files, out.rows[i])

\* The matching variants sample one product from the stored group itself; the
\* discrimination variants sample discrim_size products from a reset_index
\* copy of it.
GetItem(plan_id) ==
    /\ pc = "ready"
    /\ IF plan_id \notin Range(unique_plan_ids)
       THEN /\ prod' = [NoCall EXCEPT !.status = "AssertionError"]
            /\ UNCHANGED meta_access_by_plan_id
       ELSE IF args.variant \in MatchingVariants
       THEN /\ sample_prods(meta_access_by_plan_id[plan_id], 1,
                            args.sampling_method, prod')
            /\ meta_access_by_plan_id' =
                   [meta_access_by_plan_id EXCEPT
                        ![plan_id].weight = prod'.plan_weight]
       ELSE /\ sample_prods(meta_access_by_plan_id[plan_id],
                            args.discrim_size, args.sampling_method, prod')
            /\ UNCHANGED meta_access_by_plan_id
    /\ img_error' = LoadFails(args.files, prod')
    /\ UNCHANGED <<args, pc, error, meta, unique_plan_ids, warning>>

----------------------------------------------------------------------------
(* The datasets and calls explored. *)

PlanIds == {1, 2}

MetaColumns ==
    {"id", "prod_id", "plan_id", "CTR"} \cup DEFAULT_PLAN_ATTRS
        \cup DEFAULT_PROD_ATTRS

\* Metadata tables of L rows: row i has id i and product i.
MetaTables(L, plans) ==
    {[i \in 1..L |-> [id |-> i, plan_id |-> pl[i], prod_id |-> i,
                      score |-> sc[i]]] :
        pl \in [1..L -> plans], sc \in [1..L -> 0..MaxScore]}

Unset == <<>>

Init ==
    /\ \E L \in 1..MaxRows :
       \E m \in MetaTables(L, PlanIds) :
       \E files \in SUBSET (1..L) :
       \E variant \in Variants :
       \E absent \in {{}, {"CTR"}, {"plan_name"}, {"plan_kwds"}, {"prod_text"}} :
       \E plan_attrs \in {<<>>, <<{"plan_name"}>>} :
       \E prod_attrs \in {<<>>} :
       \E method \in SamplingMethods \cup {"stratified"} :
       \E discrim_size \in IF variant \in MatchingVariants
                           THEN {1} ELSE 2..MaxRows :
           args = [variant |-> variant, meta |-> m, files |-> files,
                   columns |-> MetaColumns \ absent, target |-> "CTR",
                   plan_attrs |-> plan_attrs, prod_attrs |-> prod_attrs,
                   sampling_method |-> method, discrim_size |-> discrim_size]
    /\ pc = "new"
    /\ error = "none"
    /\ meta = Unset
    /\ meta_access_by_plan_id = Unset
    /\ unique_plan_ids = Unset
    /\ warning = Unset
    /\ prod = NoCall
    /\ img_error = FALSE

Next ==
    \/ Construct
    \/ \E plan_id \in PlanIds : GetItem(plan_id)

Spec == Init /\ [][Next]_vars

----------------------------------------------------------------------------
(* sample_prods called on the group of a one-plan dataset. *)

\* The groups of L rows.  sample_prods treats the rows of a group alike (it
\* draws sets of rows and sorts them), so the groups are listed up to the
\* order of their rows: by non-decreasing score.
Groups(L) ==
    {m \in MetaTables(L, {1}) :
        \A i \in 1..(L - 1) : m[i].score <= m[i + 1].score}

SampleInit ==
    /\ \E L \in 1..MaxGroup :
       \E m \in Groups(L) :
       \E method \in SamplingMethods :
           args = [variant |-> "PreferenceDiscrimDataset", meta |-> m,
                   files |-> 1..L, columns |-> MetaColumns, target |-> "CTR",
                   plan_attrs |-> <<>>, prod_attrs |-> <<>>,
                   sampling_method |-> method, discrim_size |-> L]
    /\ pc = "ready"
    /\ error = "none"
    /\ meta = Constructed(args).meta
    /\ meta_access_by_plan_id = Constructed(args).meta_access_by_plan_id
    /\ unique_plan_ids = Constructed(args).unique_plan_ids
    /\ warning = Constructed(args).warning
    /\ prod = NoCall
    /\ img_error = FALSE

\* self.sample_prods(plan, n) on a reset_index copy of the group of plan 1.
SampleCall(n) ==
    /\ pc = "ready"
    /\ sample_prods(meta_access_by_plan_id[1], n, args.sampling_method, prod')
    /\ pc' = "returned"
    /\ UNCHANGED <<args, error, meta, meta_access_by_plan_id, unique_plan_ids,
                   warning, img_error>>

SampleNext == \E n \in -1..MaxGroup : SampleCall(n)

SampleSpec == SampleInit /\ [][SampleNext]_vars

----------------------------------------------------------------------------
(* Properties of sample_prods, under SampleSpec. *)

Group == meta_access_by_plan_id[1].rows

Returned == pc = "returned"

Method == args.sampling_method

Picked == Range(prod.idx)

Injective(f) == \A i, j \in DOMAIN f : f[i] = f[j] => i = j

NonIncreasing(idx, key) ==
    \A i, j \in DOMAIN idx : i < j => key[idx[i]] >= key[idx[j]]

\* The call returned k distinct rows of the group.
ReturnsRows(k) ==
    /\ prod.status = "ok"
    /\ Len(prod.idx) = k
    /\ Picked \subseteq DOMAIN Group
    /\ Injective(prod.idx)

\* C3: for every strategy and every n >= 1, a group of exactly n rows is
\* returned whole, sorted by target score descending (n = 1 included).
C3_WholeGroupWhenSizeIsN ==
    (Returned /\ prod.n >= 1 /\ prod.n = Len(Group)) =>
        /\ ReturnsRows(Len(Group))
        /\ NonIncreasing(prod.idx, Scores(Group))

\* C4: weighted, n > 1, n below the group size: the call completes and
\* returns exactly n rows of the group, no product id twice.
C4_WeightedReturnsNDistinct ==
    (Returned /\ Method = "weighted" /\ prod.n > 1 /\ prod.n < Len(Group)) =>
        /\ ReturnsRows(prod.n)
        /\ \A i, j \in DOMAIN prod.rows :
               prod.rows[i].prod_id = prod.rows[j].prod_id => i = j

\* C5: n = 1, any strategy, any non-empty group: the call completes and
\* returns exactly one row, a row of the group.
C5_OneRowForNOne ==
    (Returned /\ prod.n = 1) =>
        /\ ReturnsRows(1)
        /\ \E i \in DOMAIN Group : prod.rows[1] = Group[i]

\* C6: sequential, n = 1: the returned row's target value is the maximum of
\* the group, whatever the random choice; when a single row attains the
\* maximum, every call returns that row.
C6_SequentialOneIsMax ==
    (Returned /\ Method = "sequential" /\ prod.n = 1) =>
        /\ ReturnsRows(1)
        /\ \A i \in DOMAIN Group : Group[i].score <= prod.rows[1].score
        /\ \A i \in DOMAIN Group :
               (\A k \in DOMAIN Group \ {i} : Group[k].score < Group[i].score)
                   => prod.rows[1] = Group[i]

C6_Witness ==
    /\ Returned /\ Method = "sequential" /\ prod.n = 1
    /\ Len(Group) >= 3
    /\ prod.status = "ok"
    /\ \A k \in DOMAIN Group \ {prod.idx[1]} :
           Group[k].score < prod.rows[1].score

\* C9: n > 1: the rows returned are in non-increasing order of target score
\* (weighted: wherever two scores differ by at least the jitter span), and
\* sequential returns exactly the n highest-scoring rows of the group.
C9_OrderedAndTopN ==
    (Returned /\ prod.n > 1 /\ prod.status = "ok") =>
        /\ \A i, j \in DOMAIN prod.rows :
               i < j =>
                   \/ prod.rows[i].score >= prod.rows[j].score
                   \/ /\ Method = "weighted"
                      /\ prod.rows[j].score - prod.rows[i].score < JitterLevels
        /\ Method = "sequential" =>
               /\ ReturnsRows(prod.n)
               /\ \A x \in Picked : \A y \in DOMAIN Group \ Picked :
                      Group[y].score <= Group[x].score

\* The rows left once the positive is dropped, in a weighted call for n > 1
\* that drew its positive.
DrewPositive ==
    /\ Returned /\ Method = "weighted"
    /\ prod.n > 1 /\ prod.n # Len(Group)
    /\ prod.pos # 0

Remaining == DOMAIN Group \ {prod.pos}

\* C10: weighted, n > 1: the rows of maximal weight among those remaining
\* after the positive is removed are never returned (so the runner-up is
\* absent when the positive is the top row), and when all remaining rows
\* share one weight the call fails instead of returning rows.
C10_MaxRemainingNeverNegative ==
    DrewPositive =>
        /\ prod.status = "ok" =>
               \A x \in Remaining :
                   (\A y \in Remaining : prod.plan_weight[y] <= prod.plan_weight[x])
                       => x \notin Picked
        /\ (\A x, y \in Remaining : prod.plan_weight[x] = prod.plan_weight[y])
               => prod.status = "ValueError"

C10_Witness ==
    /\ DrewPositive
    /\ prod.status = "ok"
    /\ prod.n >= 3
    /\ \A y \in Remaining : prod.plan_weight[y] <= prod.plan_weight[prod.pos]
    /\ \E x \in Remaining : x \notin Picked

----------------------------------------------------------------------------
(* Properties of the dataset objects, under Spec. *)

Missing == {i \in DOMAIN args.meta : args.meta[i].prod_id \notin args.files}

\* C1: after construction every row of every stored group has an image file,
\* and no call returns a row without one.
C1_GroupRowsHaveImages ==
    pc = "ready" =>
        /\ \A p \in Range(unique_plan_ids) :
           \A r \in Range(meta_access_by_plan_id[p].rows) :
               r.prod_id \in args.files
        /\ \A r \in Range(prod.rows) : r.prod_id \in args.files

\* C2: sampling never changes the stored groups: they keep the columns and
\* the rows they had right after construction.
C2_GroupsNeverMutated ==
    pc = "ready" => meta_access_by_plan_id = GroupBy(args.meta)

C8_BadArgumentsFailFast ==
    (\/ args.target \notin args.columns
     \/ args.sampling_method \notin {"weighted", "random", "sequential"}
     \/ \E c \in (IF args.plan_attrs = <<>> THEN DEFAULT_PLAN_ATTRS
                                           ELSE args.plan_attrs[1]) :
            c \notin args.columns
     \/ \E c \in (IF args.prod_attrs = <<>> THEN DEFAULT_PROD_ATTRS
                                           ELSE args.prod_attrs[1]) :
            c \notin args.columns) =>
        /\ pc \in {"new", "failed"}
        /\ pc = "failed" => error = "AssertionError"
        /\ meta = Unset /\ meta_access_by_plan_id = Unset
        /\ unique_plan_ids = Unset /\ warning = Unset
        /\ prod = NoCall

C8_Witness ==
    /\ pc = "failed"
    /\ error = "AssertionError"
    /\ args.target \in args.columns
    /\ args.sampling_method \in SamplingMethods
    /\ args.plan_attrs # <<>>
    /\ \E c \in args.plan_attrs[1] : c \notin args.columns

=============================================================================
